---- MODULE Spec2Model ----
(***************************************************************************)
(* Risk-scoring and adaptive blacklist engine of the page scripts:         *)
(* blacklistSystem (src/js/utils.js) and the part of initializeCaptcha     *)
(* (src/js/captcha.js) that consumes its verdict, and detectAutomation     *)
(* (src/js/fragment-handler.js).                                           *)
(*                                                                         *)
(* Strings are sequences of character codes; the value `undefined` is      *)
(* Undefined.  Timestamps are milliseconds as returned by Date.now().      *)
(***************************************************************************)
EXTENDS Integers, Sequences, FiniteSets, TLC

(***************************************************************************)
(* Bounds of the model                                                     *)
(***************************************************************************)
\* ms explored after the expiry horizon of a block made at the first visit
MaxSlack == 1
\* total number of recordFailedAttempt invocations explored
MaxCalls == 3
\* number of Math.random() fallback identifiers drawn
MaxFresh == 2
\* ms the clock may advance between two Date.now() reads of one handler
MaxDrift == 1

(***************************************************************************)
(* Program constants                                                       *)
(***************************************************************************)
maxFailedAttempts == 3
blacklistDuration == 86400
\* substring(0, 32) in getClientIdentifier
IdLength == 32

(* knownBotSignatures: googlebot, bingbot, yandexbot, slurp, duckduckbot, baiduspider, bytespider, facebookexternalhit, twitterbot, rogerbot, linkedinbot, embedly, quora link preview, showyoubot, outbrain, pinterest, slackbot, vkshare, w3c_validator, postman, curl, wget, python-requests, ahrefs, semrushbot, mj12bot, applebot, dotbot, zoominfobot, scanner, crawler, spider, headless, scraper, selenium, webdriver, puppeteer, phantom, nightmare, jsdom *)
knownBotSignatures ==
  <<<<103,111,111,103,108,101,98,111,116>>,
    <<98,105,110,103,98,111,116>>,
    <<121,97,110,100,101,120,98,111,116>>,
    <<115,108,117,114,112>>,
    <<100,117,99,107,100,117,99,107,98,111,116>>,
    <<98,97,105,100,117,115,112,105,100,101,114>>,
    <<98,121,116,101,115,112,105,100,101,114>>,
    <<102,97,99,101,98,111,111,107,101,120,116,101,114,110,97,108,104,105,116>>,
    <<116,119,105,116,116,101,114,98,111,116>>,
    <<114,111,103,101,114,98,111,116>>,
    <<108,105,110,107,101,100,105,110,98,111,116>>,
    <<101,109,98,101,100,108,121>>,
    <<113,117,111,114,97,32,108,105,110,107,32,112,114,101,118,105,101,119>>,
    <<115,104,111,119,121,111,117,98,111,116>>,
    <<111,117,116,98,114,97,105,110>>,
    <<112,105,110,116,101,114,101,115,116>>,
    <<115,108,97,99,107,98,111,116>>,
    <<118,107,115,104,97,114,101>>,
    <<119,51,99,95,118,97,108,105,100,97,116,111,114>>,
    <<112,111,115,116,109,97,110>>,
    <<99,117,114,108>>,
    <<119,103,101,116>>,
    <<112,121,116,104,111,110,45,114,101,113,117,101,115,116,115>>,
    <<97,104,114,101,102,115>>,
    <<115,101,109,114,117,115,104,98,111,116>>,
    <<109,106,49,50,98,111,116>>,
    <<97,112,112,108,101,98,111,116>>,
    <<100,111,116,98,111,116>>,
    <<122,111,111,109,105,110,102,111,98,111,116>>,
    <<115,99,97,110,110,101,114>>,
    <<99,114,97,119,108,101,114>>,
    <<115,112,105,100,101,114>>,
    <<104,101,97,100,108,101,115,115>>,
    <<115,99,114,97,112,101,114>>,
    <<115,101,108,101,110,105,117,109>>,
    <<119,101,98,100,114,105,118,101,114>>,
    <<112,117,112,112,101,116,101,101,114>>,
    <<112,104,97,110,116,111,109>>,
    <<110,105,103,104,116,109,97,114,101>>,
    <<106,115,100,111,109>>>>
(* securityTools: avast, avg, avira, bitdefender, kaspersky, mcafee, norton, eset, f-secure, trend micro, sophos, symantec, trustwave, forcepoint, checkpoint, barracuda, mimecast, proofpoint, fireeye, crowdstrike, cyren, spamhaus, spamcop, netcraft, virustotal, sucuri, urlscan, zscaler, office365, microsoft-security, cisco, forcepoint, cofense *)
securityTools ==
  <<<<97,118,97,115,116>>,
    <<97,118,103>>,
    <<97,118,105,114,97>>,
    <<98,105,116,100,101,102,101,110,100,101,114>>,
    <<107,97,115,112,101,114,115,107,121>>,
    <<109,99,97,102,101,101>>,
    <<110,111,114,116,111,110>>,
    <<101,115,101,116>>,
    <<102,45,115,101,99,117,114,101>>,
    <<116,114,101,110,100,32,109,105,99,114,111>>,
    <<115,111,112,104,111,115>>,
    <<115,121,109,97,110,116,101,99>>,
    <<116,114,117,115,116,119,97,118,101>>,
    <<102,111,114,99,101,112,111,105,110,116>>,
    <<99,104,101,99,107,112,111,105,110,116>>,
    <<98,97,114,114,97,99,117,100,97>>,
    <<109,105,109,101,99,97,115,116>>,
    <<112,114,111,111,102,112,111,105,110,116>>,
    <<102,105,114,101,101,121,101>>,
    <<99,114,111,119,100,115,116,114,105,107,101>>,
    <<99,121,114,101,110>>,
    <<115,112,97,109,104,97,117,115>>,
    <<115,112,97,109,99,111,112>>,
    <<110,101,116,99,114,97,102,116>>,
    <<118,105,114,117,115,116,111,116,97,108>>,
    <<115,117,99,117,114,105>>,
    <<117,114,108,115,99,97,110>>,
    <<122,115,99,97,108,101,114>>,
    <<111,102,102,105,99,101,51,54,53>>,
    <<109,105,99,114,111,115,111,102,116,45,115,101,99,117,114,105,116,121>>,
    <<99,105,115,99,111>>,
    <<102,111,114,99,101,112,111,105,110,116>>,
    <<99,111,102,101,110,115,101>>>>
(* knownMaliciousIPs: 154.28.229.126, 152.32.99.64, 107.150.22.208, 54.189.230.128, 154.28.229.253, 154.28.229.224, 154.28.229.172, 154.28.229.108, 154.28.229.11, 154.28.229.18, 154.28.229.20, 154.28.229.1, 154.28.229.140, 154.28.229.111, 154.28.229.49, 154.28.229.145, 154.28.229.242, 104.164.173.222, 104.164.173.206, 104.164.173.128 *)
knownMaliciousIPs ==
  <<<<154,28,229,126>>,
    <<152,32,99,64>>,
    <<107,150,22,208>>,
    <<54,189,230,128>>,
    <<154,28,229,253>>,
    <<154,28,229,224>>,
    <<154,28,229,172>>,
    <<154,28,229,108>>,
    <<154,28,229,11>>,
    <<154,28,229,18>>,
    <<154,28,229,20>>,
    <<154,28,229,1>>,
    <<154,28,229,140>>,
    <<154,28,229,111>>,
    <<154,28,229,49>>,
    <<154,28,229,145>>,
    <<154,28,229,242>>,
    <<104,164,173,222>>,
    <<104,164,173,206>>,
    <<104,164,173,128>>>>
(* blockedIPRanges: 104.164.173.0/24, 154.28.229.0/24 *)
blockedIPRanges ==
  <<[rangeIP |-> <<104,164,173,0>>, prefixLength |-> 24],
    [rangeIP |-> <<154,28,229,0>>, prefixLength |-> 24]>>
(* "Mozilla/5.0 (Windows NT 10.0; Win64; x64) AppleWebKit/537.36 (KHTML, like Gecko) Chrome/120.0.0.0 Safari/537.36" *)
UA_chrome ==
  <<77,111,122,105,108,108,97,47,53,46,48,32,40,87,105,110,100,111,119,115,32,78,84,32,49,48,46,48,59,32,87,105,110,54,52,59,32,120,54,52,41,32,65,112,112,108,101,87,101,98,75,105,116,47,53,51,55,46,51,54,32,40,75,72,84,77,76,44,32,108,105,107,101,32,71,101,99,107,111,41,32,67,104,114,111,109,101,47,49,50,48,46,48,46,48,46,48,32,83,97,102,97,114,105,47,53,51,55,46,51,54>>
(* "Mozilla/5.0 (X11; Linux x86_64; rv:121.0) Gecko/20100101 Firefox/121.0" *)
UA_firefox ==
  <<77,111,122,105,108,108,97,47,53,46,48,32,40,88,49,49,59,32,76,105,110,117,120,32,120,56,54,95,54,52,59,32,114,118,58,49,50,49,46,48,41,32,71,101,99,107,111,47,50,48,49,48,48,49,48,49,32,70,105,114,101,102,111,120,47,49,50,49,46,48>>
(* "Mozilla/5.0 (compatible; Baiduspider/2.0; +http://www.baidu.com/search/spider.html)" *)
UA_baidu ==
  <<77,111,122,105,108,108,97,47,53,46,48,32,40,99,111,109,112,97,116,105,98,108,101,59,32,66,97,105,100,117,115,112,105,100,101,114,47,50,46,48,59,32,43,104,116,116,112,58,47,47,119,119,119,46,98,97,105,100,117,46,99,111,109,47,115,101,97,114,99,104,47,115,112,105,100,101,114,46,104,116,109,108,41>>
(* "Mozilla/5.0 (X11; Linux x86_64) AppleWebKit/537.36 (KHTML, like Gecko) HeadlessChrome/120.0.0.0 Safari/537.36" *)
UA_headless ==
  <<77,111,122,105,108,108,97,47,53,46,48,32,40,88,49,49,59,32,76,105,110,117,120,32,120,56,54,95,54,52,41,32,65,112,112,108,101,87,101,98,75,105,116,47,53,51,55,46,51,54,32,40,75,72,84,77,76,44,32,108,105,107,101,32,71,101,99,107,111,41,32,72,101,97,100,108,101,115,115,67,104,114,111,109,101,47,49,50,48,46,48,46,48,46,48,32,83,97,102,97,114,105,47,53,51,55,46,51,54>>
(* "Mozilla/5.0 (Windows NT 10.0; Win64; x64) Proofpoint URL Defense/3.1" *)
UA_scanner ==
  <<77,111,122,105,108,108,97,47,53,46,48,32,40,87,105,110,100,111,119,115,32,78,84,32,49,48,46,48,59,32,87,105,110,54,52,59,32,120,54,52,41,32,80,114,111,111,102,112,111,105,110,116,32,85,82,76,32,68,101,102,101,110,115,101,47,51,46,49>>
(* "Mozilla/5.0 (Linux; Android 10; \u7ea2\u7c73 Note 8) Mobile Safari/537.36" *)
UA_unicode ==
  <<77,111,122,105,108,108,97,47,53,46,48,32,40,76,105,110,117,120,59,32,65,110,100,114,111,105,100,32,49,48,59,32,32418,31859,32,78,111,116,101,32,56,41,32,77,111,98,105,108,101,32,83,97,102,97,114,105,47,53,51,55,46,51,54>>
(* "en-US" *)
\* "Mozilla/5.0 (X11; Linux x86_64) Chrome/120.0 Firefox/121.0"
UA_chimera ==
  <<77,111,122,105,108,108,97,47,53,46,48,32,40,88,49,49,59,32,76,105,110,117,120,32,120,56,54,95,54,52,41,32,67,104,114,111,109,101,47,49,50,48,46,48,32,70,105,114,101,102,111,120,47,49,50,49,46,48>>

\* "Mozilla/5.0 (Linux; Android 10) HeadlessChrome/120.0.0.0 Mobile"
UA_headless_mobile ==
  <<77,111,122,105,108,108,97,47,53,46,48,32,40,76,105,110,117,120,59,32,65,110,100,114,111,105,100,32,49,48,41,32,72,101,97,100,108,101,115,115,67,104,114,111,109,101,47,49,50,48,46,48,46,48,46,48,32,77,111,98,105,108,101>>

Str_enUS == <<101,110,45,85,83>>
(* "fr-FR" *)
Str_frFR == <<102,114,45,70,82>>
(* "Win32" *)
Str_Win32 == <<87,105,110,51,50>>
(* "Linux x86_64" *)
Str_Linux == <<76,105,110,117,120,32,120,56,54,95,54,52>>
(* "no_canvas" *)
Str_no_canvas == <<110,111,95,99,97,110,118,97,115>>
(* "|" *)
Str_Bar == <<124>>
(* "x" *)
Str_x == <<120>>
(* "data:image/png;base64,iVBORw0KGgoA" *)
Str_dataURL_A == <<100,97,116,97,58,105,109,97,103,101,47,112,110,103,59,98,97,115,101,54,52,44,105,86,66,79,82,119,48,75,71,103,111,65>>
(* "data:image/png;base64,iVBORw0KGgoB" *)
Str_dataURL_B == <<100,97,116,97,58,105,109,97,103,101,47,112,110,103,59,98,97,115,101,54,52,44,105,86,66,79,82,119,48,75,71,103,111,66>>

(***************************************************************************)
(* String helpers                                                          *)
(***************************************************************************)
Undefined == <<-1>>

\* String.prototype.toLowerCase on ASCII and Latin-1 letters
ToLowerCase(s) ==
  [i \in 1..Len(s) |->
     IF (s[i] >= 65 /\ s[i] <= 90) \/ (s[i] >= 192 /\ s[i] <= 222 /\ s[i] # 215)
     THEN s[i] + 32 ELSE s[i]]

\* String.prototype.includes
Includes(s, t) ==
  \E i \in 0..(Len(s) - Len(t)) : SubSeq(s, i + 1, i + Len(t)) = t

\* Array.prototype.join: undefined elements become the empty string
RECURSIVE Join(_, _)
Join(parts, sep) ==
  IF Len(parts) = 0 THEN <<>>
  ELSE LET h == IF Head(parts) = Undefined THEN <<>> ELSE Head(parts)
       IN IF Len(parts) = 1 THEN h ELSE h \o sep \o Join(Tail(parts), sep)

\* Number to decimal string (screen.width + 'x' + screen.height)
RECURSIVE NumToStr(_)
NumToStr(n) ==
  IF n < 10 THEN <<48 + n>> ELSE NumToStr(n \div 10) \o <<48 + (n % 10)>>

\* btoa throws InvalidCharacterError on a code point above 255
BtoaThrows(s) == \E i \in 1..Len(s) : s[i] > 255

\* btoa: base64 of the byte string, as sextet values 0..63, '=' is 64
Btoa(s) ==
  LET n == Len(s)
      byte(i) == IF i <= n THEN s[i] ELSE 0
      sextet(k) ==
        LET g == (k - 1) \div 4
            j == (k - 1) % 4
            b1 == byte(3 * g + 1)
            b2 == byte(3 * g + 2)
            b3 == byte(3 * g + 3)
        IN CASE j = 0 -> b1 \div 4
             [] j = 1 -> (b1 % 4) * 16 + (b2 \div 16)
             [] j = 2 -> IF 3 * g + 2 > n THEN 64 ELSE (b2 % 16) * 4 + (b3 \div 64)
             [] OTHER -> IF 3 * g + 3 > n THEN 64 ELSE b3 % 64
  IN [k \in 1..(4 * ((n + 2) \div 3)) |-> sextet(k)]

\* String.prototype.substring(0, n)
Substring0(s, n) == SubSeq(s, 1, IF Len(s) < n THEN Len(s) ELSE n)

(***************************************************************************)
(* Browser environments the scripts run in                                 *)
(***************************************************************************)
\* navigator.*, screen.*, canvas, window.chrome, window.InstallTrigger,
\* Error().stack and the unguarded fingerprint collectors, per browser
\* an IPv4 address is its four octets; NoIP is null
NoIP == <<>>

Environments ==
  [ chrome   |-> [userAgent |-> UA_chrome, language |-> Str_enUS, width |-> 1920, height |-> 1080,
                  platform |-> Str_Win32, dataURL |-> Str_dataURL_A, hasChrome |-> TRUE,
                  hasInstallTrigger |-> FALSE, stackOK |-> TRUE, collectorThrows |-> FALSE,
                  address |-> <<8,8,8,8>>],
    baidu    |-> [userAgent |-> UA_baidu, language |-> Str_enUS, width |-> 1024, height |-> 768,
                  platform |-> Str_Linux, dataURL |-> Undefined, hasChrome |-> FALSE,
                  hasInstallTrigger |-> FALSE, stackOK |-> TRUE, collectorThrows |-> FALSE,
                  address |-> <<104,164,173,50>>],
    headless |-> [userAgent |-> UA_headless, language |-> Str_enUS, width |-> 800, height |-> 600,
                  platform |-> Str_Linux, dataURL |-> Str_dataURL_A, hasChrome |-> FALSE,
                  hasInstallTrigger |-> FALSE, stackOK |-> TRUE, collectorThrows |-> FALSE,
                  address |-> NoIP],
    scanner  |-> [userAgent |-> UA_scanner, language |-> Str_enUS, width |-> 1920, height |-> 1080,
                  platform |-> Str_Win32, dataURL |-> Str_dataURL_A, hasChrome |-> FALSE,
                  hasInstallTrigger |-> FALSE, stackOK |-> TRUE, collectorThrows |-> FALSE,
                  address |-> NoIP],
    unicode  |-> [userAgent |-> UA_unicode, language |-> Str_enUS, width |-> 1080, height |-> 2340,
                  platform |-> Str_Linux, dataURL |-> Str_dataURL_B, hasChrome |-> FALSE,
                  hasInstallTrigger |-> FALSE, stackOK |-> TRUE, collectorThrows |-> FALSE,
                  address |-> NoIP],
    noagent  |-> [userAgent |-> Undefined, language |-> Str_enUS, width |-> 1920, height |-> 1080,
                  platform |-> Str_Win32, dataURL |-> Str_dataURL_A, hasChrome |-> TRUE,
                  hasInstallTrigger |-> FALSE, stackOK |-> TRUE, collectorThrows |-> FALSE,
                  address |-> NoIP],
    hardened |-> [userAgent |-> UA_firefox, language |-> Str_frFR, width |-> 1366, height |-> 768,
                  platform |-> Str_Linux, dataURL |-> Undefined, hasChrome |-> FALSE,
                  hasInstallTrigger |-> TRUE, stackOK |-> TRUE, collectorThrows |-> TRUE,
                  address |-> NoIP],
    proxied  |-> [userAgent |-> UA_chrome, language |-> Str_enUS, width |-> 1920, height |-> 1080,
                  platform |-> Str_Win32, dataURL |-> Str_dataURL_A, hasChrome |-> TRUE,
                  hasInstallTrigger |-> FALSE, stackOK |-> TRUE, collectorThrows |-> FALSE,
                  address |-> <<154,28,229,126>>] ]

Browsers == DOMAIN Environments
\* browsers whose visits differ in the verdict of checkBlacklist
FacadeBrowsers == {"chrome", "baidu", "scanner", "unicode", "noagent"}
\* browsers whose visits differ in what initializeCaptcha leaves on screen
CaptchaBrowsers == {"chrome", "headless", "hardened", "noagent", "scanner", "proxied"}


\* localStorage behaviour: "ok", "full" (setItem throws), "down" (getItem and setItem throw)
StorageModes == {"ok", "full", "down"}

\* reasons passed to recordFailedAttempt; ip is the suffix of "blocked_ip_" + ip
Reason(text, ip) == [text |-> text, ip |-> ip]
FormReasons == {"honeypot_filled", "no_interactions"}
\* reasons a direct caller of recordFailedAttempt passes
ApiReasons == {"honeypot_filled"}

VARIABLES
  now,             \* the value Date.now() returns
  browser,         \* the environment the page runs in (a name of Environments)
  storageMode,     \* behaviour of localStorage
  blacklistStore,  \* localStorage['captcha_blacklist']
  failedStore,     \* localStorage['captcha_failed_attempts']
  failedAttempts,  \* blacklistSystem.failedAttempts
  blacklistedIPs,  \* blacklistSystem.blacklistedIPs
  visitorIP,       \* blacklistSystem.visitorIP
  ipPending,       \* whether a detectVisitorIP call that will find an address is
                   \* still awaiting it
  userPreferences, \* blacklistSystem.userPreferences
  page,            \* what initializeCaptcha left on screen
  fresh,           \* number of Math.random() identifiers drawn so far
  calls,           \* number of recordFailedAttempt invocations so far
  streak,          \* per client: recordFailedAttempt calls made in this page load
                   \* since it had neither a failure record nor a stored entry
  last             \* the last operation of the facade or ledger and its outcome

vars == <<now, browser, storageMode, blacklistStore, failedStore, failedAttempts,
          blacklistedIPs, visitorIP, ipPending, userPreferences, page, fresh, calls,
          streak, last>>

Env == Environments[browser]

(***************************************************************************)
(* Clock                                                                   *)
(***************************************************************************)
DurationMs == blacklistDuration * 1000

\* clock values explored: the first visit, and the ms at and after the
\* expiry horizon one blacklistDuration later
ClockValues == {0} \cup { DurationMs + k : k \in 0..MaxSlack }

\* the successive Date.now() reads of one handler: non-decreasing, starting
\* at now, advancing at most MaxDrift ms in total
Reads(n) ==
  { r \in [1..n -> { t \in ClockValues : t >= now /\ t <= now + MaxDrift }] :
      \A i \in 1..(n - 1) : r[i] <= r[i + 1] }

(***************************************************************************)
(* localStorage values (JSON text, kept in parsed form)                    *)
(*   kind "absent"  : getItem returns null                                 *)
(*   kind "map"     : an object of entries, in insertion order             *)
(*   kind "garbage" : text JSON.parse rejects                              *)
(***************************************************************************)
EmptyMap == [c \in {} |-> 0]
Absent == [kind |-> "absent", entries |-> <<>>]
MapValue(es) == [kind |-> "map", entries |-> es]
Garbage == [kind |-> "garbage", entries |-> <<>>]

GetItemThrows == storageMode = "down"
SetItemThrows == storageMode \in {"down", "full"}

\* Object.keys of a parsed blacklist
Keys(es) == [i \in 1..Len(es) |-> es[i].id]
HasKey(es, id) == \E i \in 1..Len(es) : es[i].id = id
Get(es, id) == es[CHOOSE i \in 1..Len(es) : es[i].id = id]
\* blacklist[id] = e : an existing key keeps its place, a new one goes last
Put_alone(es, e) == <<e>>
Put(es, e) ==
  IF HasKey(es, e.id)
  THEN [i \in 1..Len(es) |-> IF es[i].id = e.id THEN e ELSE es[i]]
  ELSE Append(es, e)
\* delete blacklist[id]
Delete(es, id) == SelectSeq(es, LAMBDA e : e.id # id)

\* JSON.parse(localStorage.getItem('captcha_blacklist') || '{}')
ParseThrows(store) == GetItemThrows \/ store.kind = "garbage"
Parse(store) == IF store.kind = "map" THEN store.entries ELSE <<>>
\* JSON.stringify(blacklist)
Stringify(es) == MapValue(es)

(***************************************************************************)
(* getClientIdentifier                                                     *)
(***************************************************************************)
\* the components array, e the environment the page runs in
IdComponents(e, allowCanvas) ==
  LET basic == << e.userAgent, e.language,
                  NumToStr(e.width) \o Str_x \o NumToStr(e.height), e.platform >>
  IN IF allowCanvas
     THEN Append(basic, IF e.dataURL = Undefined THEN Str_no_canvas ELSE e.dataURL)
     ELSE basic

\* btoa(s).substring(0, 32), or Undefined when btoa throws
Encode(s) == IF BtoaThrows(s) THEN Undefined ELSE Substring0(Btoa(s), IdLength)
\* btoa(s): Undefined where it throws
Encode_full(s) == IF BtoaThrows(s) THEN Undefined ELSE Btoa(s)

\* the identifier of each browser: the joined components, encoded
EncodedId ==
  [b \in Browsers, a \in BOOLEAN |->
     CHOOSE id \in { Encode(s) : s \in {Join(IdComponents(Environments[b], a), Str_Bar)} } : TRUE]

\* 'fallback_' + Math.random().toString(36).substring(2, 15), rnd the draw
FallbackId(rnd) == <<-1, rnd>>

\* rnd is the next Math.random() draw, used only on the fallback path
IdentifierOr(encoded, rnd) ==
  IF encoded = Undefined THEN [id |-> FallbackId(rnd), drew |-> 1]
  ELSE [id |-> encoded, drew |-> 0]

getClientIdentifier(rnd) == IdentifierOr(EncodedId[browser, userPreferences.allowCanvas], rnd)

ClientIds ==
  ({ EncodedId[b, a] : b \in Browsers, a \in BOOLEAN } \ {Undefined})
    \cup { FallbackId(n) : n \in 1..MaxFresh }

(***************************************************************************)
(* Static IP denylist: isIPBlocked, isIPInRange, ipToInt                   *)
(***************************************************************************)
\* A 32-bit word is its bit pattern, most significant bit first; the
\* int32 a JavaScript bitwise operator sees is the word of its operand.
AllOnes == [i \in 1..32 |-> 1]
\* the word of an int32 number
WordOf(x) ==
  LET low == IF x < 0 THEN (x + 1073741824) + 1073741824 ELSE x
  IN [i \in 1..32 |-> IF i = 1 THEN (IF x < 0 THEN 1 ELSE 0)
                      ELSE (low \div (2 ^ (32 - i))) % 2]
\* w << n : the shift count is taken modulo 32
ShiftLeft(w, n) ==
  LET k == n % 32
  IN [i \in 1..32 |-> IF i + k <= 32 THEN w[i + k] ELSE 0]
\* v & w
BitAnd(v, w) == [i \in 1..32 |-> IF v[i] = 1 /\ w[i] = 1 THEN 1 ELSE 0]
\* octet << 24 as an int32 number, for an octet in 0..255
Shifted24(octet) == (IF octet >= 128 THEN octet - 256 ELSE octet) * 16777216

ipToInt(ip) == Shifted24(ip[1]) + ip[2] * 65536 + ip[3] * 256 + ip[4]

isIPInRange(ip, cidr) ==
  LET prefix == cidr.prefixLength
      ipInt == ipToInt(ip)
      rangeInt == ipToInt(cidr.rangeIP)
      \* (0xFFFFFFFF << (32 - prefix)) >>> 0
      mask == ShiftLeft(AllOnes, 32 - prefix)
  IN BitAnd(WordOf(ipInt), mask) = BitAnd(WordOf(rangeInt), mask)

isIPBlocked(ip) ==
  IF ip = NoIP THEN FALSE
  ELSE \/ \E i \in DOMAIN knownMaliciousIPs : knownMaliciousIPs[i] = ip
       \/ \E i \in DOMAIN blockedIPRanges : isIPInRange(ip, blockedIPRanges[i])

(***************************************************************************)
(* Penalty ledger.  An operation maps the memory                           *)
(*   m = [failedAttempts, blacklistedIPs, blacklistStore, failedStore]     *)
(* to [m |-> the memory it leaves, threw |-> whether an exception left it] *)
(***************************************************************************)
Memory ==
  [failedAttempts |-> failedAttempts, blacklistedIPs |-> blacklistedIPs,
   blacklistStore |-> blacklistStore, failedStore |-> failedStore]

Returned(m) == [m |-> m, threw |-> FALSE]
Thrown(m) == [m |-> m, threw |-> TRUE]
\* try { body } catch (e) { console.error(...) }
Caught(body) == [m |-> body.m, threw |-> FALSE]

WithRecord(f, id, rec) == [c \in (DOMAIN f) \cup {id} |-> IF c = id THEN rec ELSE f[c]]
\* a delete that leaves the record in place
Without_kept(f, id) == f
Without(f, id) == [c \in (DOMAIN f) \ {id} |-> f[c]]

\* isClientBlacklisted(clientId), t the Date.now() read
isClientBlacklistedBody(m, clientId, t) ==
  IF ParseThrows(m.blacklistStore) THEN [ret |-> FALSE, threw |-> TRUE]
  ELSE LET blacklist == Parse(m.blacklistStore)
       IN [ret |-> HasKey(blacklist, clientId) /\ Get(blacklist, clientId).expires > t,
           threw |-> FALSE]

\* isClientBlacklisted answering false whatever the ledger holds
isClientBlacklisted_never(m, clientId, t) == [ret |-> FALSE, threw |-> FALSE]
isClientBlacklisted(m, clientId, t) ==
  LET body == isClientBlacklistedBody(m, clientId, t)
  IN IF body.threw THEN [ret |-> FALSE, threw |-> FALSE] ELSE body

\* addToBlacklist(clientId, reasons), tAdded and tExpires its two Date.now() reads
addToBlacklistBody(m, clientId, reasons, tAdded, tExpires) ==
  IF ParseThrows(m.blacklistStore) THEN Thrown(m)
  ELSE LET entry == [id |-> clientId, added |-> tAdded,
                     expires |-> tExpires + blacklistDuration * 1000,
                     reasons |-> reasons]
           blacklist == Put(Parse(m.blacklistStore), entry)
       IN IF SetItemThrows THEN Thrown(m)
          ELSE Returned([m EXCEPT
                 !.blacklistStore = Stringify(blacklist),
                 !.blacklistedIPs = Append(m.blacklistedIPs, clientId)])

addToBlacklist(m, clientId, reasons, tAdded, tExpires) ==
  Caught(addToBlacklistBody(m, clientId, reasons, tAdded, tExpires))

\* saveFailedAttempts()
saveFailedAttempts(m) ==
  IF SetItemThrows THEN Returned(m)
  ELSE Returned([m EXCEPT !.failedStore = [kind |-> "map", value |-> m.failedAttempts]])

\* loadBlacklist()
loadBlacklist(m) ==
  IF ParseThrows(m.blacklistStore) THEN Returned([m EXCEPT !.blacklistedIPs = <<>>])
  ELSE Returned([m EXCEPT !.blacklistedIPs = Keys(Parse(m.blacklistStore))])

\* the entries the for-in loop of cleanupExpiredEntries keeps; r[i] is the
\* Date.now() read made for the i-th entry
\* blacklist[clientId].expires <= Date.now(): an entry is dropped at its expiry
isExpired_inclusive(entry, t) == entry.expires <= t
\* the comparison turned round: an entry is dropped while it is still in force
isExpired_inverted(entry, t) == entry.expires > t
\* blacklist[clientId].expires < Date.now()
\* an entry taken for expired as soon as the clock has passed its creation
isExpired_early(entry, t) == entry.added < t
isExpired(entry, t) == entry.expires < t

RECURSIVE Unexpired(_, _, _)
Unexpired(es, r, i) ==
  IF i > Len(es) THEN <<>>
  ELSE IF isExpired(es[i], r[i]) THEN Unexpired(es, r, i + 1)
       ELSE <<es[i]>> \o Unexpired(es, r, i + 1)

\* cleanupExpiredEntries()
cleanupExpiredEntriesBody(m, r) ==
  IF ParseThrows(m.blacklistStore) THEN Thrown(m)
  ELSE LET blacklist == Parse(m.blacklistStore)
           kept == Unexpired(blacklist, r, 1)
           modified == Len(kept) < Len(blacklist)
       IN IF ~modified THEN Returned(m)
          ELSE IF SetItemThrows THEN Thrown(m)
          ELSE Returned([m EXCEPT
                 !.blacklistStore = Stringify(kept),
                 !.blacklistedIPs = Keys(kept)])

\* cleanupExpiredEntries without its try/catch
cleanupExpiredEntries_uncaught(m, r) == cleanupExpiredEntriesBody(m, r)
cleanupExpiredEntries(m, r) == Caught(cleanupExpiredEntriesBody(m, r))

\* record.count >= this.thresholds.maxFailedAttempts, promoting one call late
thresholdReached_late(count) == count > maxFailedAttempts
\* record.count >= this.thresholds.maxFailedAttempts
thresholdReached(count) == count >= maxFailedAttempts

\* recordFailedAttempt(reason): rnd the Math.random() draw of the identifier
\* fallback, r its Date.now() reads (firstAttempt, timestamp, added, expires)
recordFailedAttemptFor(m, reason, clientId, r) ==
  LET old == IF clientId \in DOMAIN m.failedAttempts
             THEN m.failedAttempts[clientId]
             ELSE [count |-> 0, reasons |-> <<>>, firstAttempt |-> r[1]]
      rec == [count |-> old.count + 1,
              reasons |-> Append(old.reasons, [reason |-> reason, timestamp |-> r[2]]),
              firstAttempt |-> old.firstAttempt]
      m1 == [m EXCEPT !.failedAttempts = WithRecord(m.failedAttempts, clientId, rec)]
  IN IF thresholdReached(rec.count)
     THEN LET add == addToBlacklist(m1, clientId, rec.reasons, r[3], r[4])
          IN IF add.threw THEN Thrown(add.m)
             ELSE saveFailedAttempts(
                    [add.m EXCEPT !.failedAttempts = Without(add.m.failedAttempts, clientId)])
     ELSE saveFailedAttempts(m1)

recordFailedAttemptBody(m, reason, rnd, r) ==
  recordFailedAttemptFor(m, reason, getClientIdentifier(rnd).id, r)

recordFailedAttempt(m, reason, rnd, r) == Caught(recordFailedAttemptBody(m, reason, rnd, r))

(***************************************************************************)
(* Decision facade: checkBlacklist                                         *)
(***************************************************************************)
\* number of knownBotSignatures the lower-cased user agent includes
botScore ==
  [b \in Browsers |->
     LET ua == Environments[b].userAgent
     IN IF ua = Undefined THEN 0
        ELSE Cardinality({ i \in DOMAIN knownBotSignatures :
                             Includes(ToLowerCase(ua), knownBotSignatures[i]) })]

\* whether the lower-cased user agent includes one of securityTools
securityToolMatch ==
  [b \in Browsers |->
     LET ua == Environments[b].userAgent
     IN IF ua = Undefined THEN FALSE
        ELSE \E i \in DOMAIN securityTools : Includes(ToLowerCase(ua), securityTools[i])]

\* confidence is kept in tenths: 9 stands for 0.9
Admit == [blocked |-> FALSE, reason |-> "null", confidence |-> 0]
\* a deny carrying confidence 0.5
Deny_half(reason) == [blocked |-> TRUE, reason |-> reason, confidence |-> 5]
Deny(reason) == [blocked |-> TRUE, reason |-> reason, confidence |-> 9]

\* checkBlacklist(): result is the verdict, recorded the number of
\* recordFailedAttempt calls it made, id the identifier it derived, at the
\* Date.now() read of its isClientBlacklisted call
checkBlacklistWith(m, rnd, r, clientFingerprint) ==
  LET denyAndRecord(verdict, reason) ==
        [m |-> recordFailedAttempt(m, reason, rnd, r).m, result |-> Deny(verdict),
         recorded |-> 1, id |-> clientFingerprint.id, drew |-> clientFingerprint.drew,
         at |-> r[1]]
  IN IF visitorIP # NoIP /\ isIPBlocked(visitorIP)
     THEN denyAndRecord("blocked_ip", Reason("blocked_ip_", visitorIP))
     ELSE IF Env.userAgent = Undefined
     THEN \* navigator.userAgent.toLowerCase() throws, the catch returns result
          [m |-> m, result |-> Admit, recorded |-> 0, id |-> Undefined, drew |-> 0,
           at |-> r[1]]
     ELSE IF botScore[browser] >= 2
     THEN denyAndRecord("known_bot", Reason("known_bot_useragent", NoIP))
     ELSE IF securityToolMatch[browser]
     THEN denyAndRecord("security_tool", Reason("security_tool_detected", NoIP))
     ELSE [m |-> m,
           result |-> IF isClientBlacklisted(m, clientFingerprint.id, r[1]).ret
                      THEN Deny("blacklisted") ELSE Admit,
           recorded |-> 0, id |-> clientFingerprint.id, drew |-> clientFingerprint.drew,
           at |-> r[1]]

\* every path that derives the identifier derives the same one: the one
\* getClientIdentifier() returns in this state
\* checkBlacklist() purging the expired entries while it evaluates
checkBlacklist_purging(m, rnd, r) ==
  [checkBlacklistWith(m, rnd, r, getClientIdentifier(rnd))
     EXCEPT !.m = cleanupExpiredEntries(@, r).m]
checkBlacklist(m, rnd, r) == checkBlacklistWith(m, rnd, r, getClientIdentifier(rnd))

(***************************************************************************)
(* hasTooManySuspiciousPatterns                                            *)
(***************************************************************************)
\* the two switches of blacklistSystem.suspiciousPatterns the function reads
suspiciousPatterns == [mismatchedUA |-> TRUE, tamperedDOM |-> TRUE]

\* suspiciousCount and totalChecks at the return statement, in the
\* environment e under the switches patterns
SuspiciousCountsWith(e, patterns) ==
  LET ua == ToLowerCase(e.userAgent)
      chromeMismatch == Includes(ua, <<99,104,114,111,109,101>>) /\ ~e.hasChrome
      firefoxMismatch == Includes(ua, <<102,105,114,101,102,111,120>>) /\ ~e.hasInstallTrigger
      tampered == ~e.stackOK
  IN [suspiciousCount |->
        (IF patterns.mismatchedUA
         THEN (IF chromeMismatch THEN 1 ELSE 0) + (IF firefoxMismatch THEN 1 ELSE 0)
         ELSE 0)
        + (IF patterns.tamperedDOM /\ tampered THEN 1 ELSE 0),
      totalChecks |->
        (IF patterns.mismatchedUA THEN 1 ELSE 0) + (IF patterns.tamperedDOM THEN 1 ELSE 0)]

SuspiciousCounts(e) == SuspiciousCountsWith(e, suspiciousPatterns)

\* the verdict with the threshold at one half
tooSuspicious_half(c) == c.totalChecks > 0 /\ 2 * c.suspiciousCount > c.totalChecks
\* totalChecks > 0 && (suspiciousCount / totalChecks) > 0.3: the quotient of
\* two small integers exceeds the double 0.3 exactly when 10 s > 3 c
tooSuspicious(c) == c.totalChecks > 0 /\ 10 * c.suspiciousCount > 3 * c.totalChecks

hasTooManySuspiciousPatterns ==
  [b \in Browsers |->
     IF Environments[b].userAgent = Undefined THEN FALSE
     ELSE \E c \in {SuspiciousCounts(Environments[b])} : tooSuspicious(c)]

(***************************************************************************)
(* Outcome of the last operation, and the count of consecutive failures    *)
(***************************************************************************)
\* removed: the number of entries an init() took out of the store; args and
\* ret: the arguments and the return value of a direct call of a function,
\* pending while the call has been made and has not returned
NoOutcome ==
  [op |-> "none", id |-> Undefined, blocked |-> FALSE, reason |-> "null",
   confidence |-> 0, recorded |-> 0, threw |-> FALSE, at |-> 0, removed |-> 0,
   args |-> <<>>, ret |-> <<>>, pending |-> FALSE]

\* a call of op with the arguments args
Call(op, args) == [NoOutcome EXCEPT !.op = op, !.args = args, !.pending = TRUE]
\* the call in progress returns ret
Return(ret) == [last EXCEPT !.ret = ret, !.pending = FALSE]
Called(op) == last.op = op /\ last.pending
Answered(op) == last.op = op /\ ~last.pending

RecordOutcome(op, id) ==
  [NoOutcome EXCEPT !.op = op, !.id = id, !.recorded = 1]

VerdictOutcome(op, c) ==
  [NoOutcome EXCEPT !.op = op, !.id = c.id, !.blocked = c.result.blocked,
                    !.reason = c.result.reason, !.confidence = c.result.confidence,
                    !.recorded = c.recorded, !.at = c.at]

\* the stored ledger holds an entry for id (whether or not it can be read now)
HasEntry(id) == HasKey(Parse(blacklistStore), id)
EntryOf(id) == Get(Parse(blacklistStore), id)

NoStreak == [id \in ClientIds |-> 0]

\* the count after one more recordFailedAttempt call for id: a call made with
\* no failure record and no stored entry is the first of a run, and a run is
\* followed up to maxFailedAttempts calls
StreakAfterCall(id) ==
  [streak EXCEPT ![id] =
     IF id \notin DOMAIN failedAttempts /\ ~HasEntry(id) THEN 1
     ELSE IF @ >= 1 /\ @ < maxFailedAttempts THEN @ + 1 ELSE 0]

\* a run ends when the entry it produced is removed from the store
StreakAfterCleanup(store) ==
  [id \in ClientIds |->
     IF HasEntry(id) /\ ~HasKey(Parse(store), id) THEN 0 ELSE streak[id]]

maxRetries == 3

(***************************************************************************)
(* Initial state: a first page load in a browser with an empty store       *)
(***************************************************************************)
DefaultPreferences == [allowCanvas |-> TRUE]

InitWith(browsers, outcomes) ==
  /\ now = 0
  /\ browser \in browsers
  /\ storageMode \in StorageModes
  /\ blacklistStore = Absent
  /\ failedStore = [kind |-> "absent", value |-> EmptyMap]
  /\ failedAttempts = EmptyMap
  /\ blacklistedIPs = <<>>
  /\ visitorIP = NoIP
  /\ ipPending = FALSE
  /\ userPreferences = DefaultPreferences
  /\ page = [state |-> "loading", retryCount |-> 0]
  /\ fresh = 0
  /\ calls = 0
  /\ streak = NoStreak
  /\ last \in outcomes

InitIn(browsers) == InitWith(browsers, {NoOutcome})

Init == InitIn(FacadeBrowsers)

SetMemory(m) ==
  /\ failedAttempts' = m.failedAttempts
  /\ blacklistedIPs' = m.blacklistedIPs
  /\ blacklistStore' = m.blacklistStore
  /\ failedStore' = m.failedStore

(***************************************************************************)
(* Environment steps                                                       *)
(***************************************************************************)
\* time passes
Tick ==
  /\ \E t \in ClockValues : t > now /\ now' = t
  /\ last' = NoOutcome
  /\ UNCHANGED <<browser, storageMode, blacklistStore, failedStore, failedAttempts,
                 blacklistedIPs, visitorIP, ipPending, userPreferences, page, fresh,
                 calls, streak>>

\* something else writes a malformed value under 'captcha_blacklist'
Tamper ==
  /\ blacklistStore.kind \in {"absent", "map"}
  /\ blacklistStore' = Garbage
  /\ last' = NoOutcome
  /\ UNCHANGED <<now, browser, storageMode, failedStore, failedAttempts,
                 blacklistedIPs, visitorIP, ipPending, userPreferences, page, fresh,
                 calls, streak>>

\* a new page load in the same browser profile: a fresh script context,
\* with localStorage in whatever condition it then is
Reload ==
  /\ storageMode' \in StorageModes
  /\ failedAttempts' = EmptyMap
  /\ blacklistedIPs' = <<>>
  /\ visitorIP' = NoIP
  /\ ipPending' = FALSE
  /\ userPreferences' = DefaultPreferences
  /\ page' = [state |-> "loading", retryCount |-> 0]
  /\ streak' = NoStreak
  /\ last' = NoOutcome
  /\ UNCHANGED <<now, browser, blacklistStore, failedStore, fresh, calls>>

(***************************************************************************)
(* Program steps                                                           *)
(***************************************************************************)
\* blacklistSystem.init(), run by each DOMContentLoaded handler
SystemInit ==
  /\ \E r \in Reads(Len(Parse(blacklistStore))) :
       \E loaded \in {loadBlacklist(Memory)} :
         \E cleaned \in {cleanupExpiredEntries(loaded.m, r)} :
           /\ SetMemory(cleaned.m)
           /\ now' = IF Len(r) = 0 THEN now ELSE r[Len(r)]
           /\ streak' = StreakAfterCleanup(cleaned.m.blacklistStore)
           /\ last' = [NoOutcome EXCEPT !.op = "init",
                                        !.threw = loaded.threw \/ cleaned.threw,
                                        !.removed = Len(Parse(blacklistStore))
                                                    - Len(Parse(cleaned.m.blacklistStore))]
  \* detectVisitorIP() runs up to its first await; where no address can be
  \* found it ends later without touching visitorIP
  /\ ipPending' = (ipPending \/ Env.address # NoIP)
  \* detectUserPreferences(): testCanvasAccess
  /\ userPreferences' = [allowCanvas |-> Env.dataURL # Undefined]
  /\ UNCHANGED <<browser, storageMode, visitorIP, page, fresh, calls>>

\* a pending detectVisitorIP() resumes with the address it found; one that
\* finds none, or never resolves, leaves ipPending set
DetectIPResolved ==
  /\ ipPending
  /\ ipPending' = FALSE
  /\ visitorIP' = Env.address
  /\ last' = NoOutcome
  /\ UNCHANGED <<now, browser, storageMode, blacklistStore, failedStore, failedAttempts,
                 blacklistedIPs, userPreferences, page, fresh, calls, streak>>

\* the Date.now() reads a handler makes: one by isClientBlacklisted; by
\* recordFailedAttempt firstAttempt and timestamp, then added and expires
\* when the call promotes
ReadsMade(recorded, id) ==
  IF recorded = 0 THEN 1
  ELSE IF thresholdReached(
            (IF id \in DOMAIN failedAttempts THEN failedAttempts[id].count ELSE 0) + 1)
       THEN 4 ELSE 2

\* r holds no more than the n reads that are made
Tight(r, n) == \A i \in n..Len(r) : r[i] = r[n]

\* what a call of checkBlacklist() with outcome c leaves behind
AfterCheck(op, c, r) ==
  /\ Tight(r, ReadsMade(c.recorded, c.id))
  /\ fresh + c.drew <= MaxFresh
  /\ calls + c.recorded <= MaxCalls
  /\ SetMemory(c.m)
  /\ fresh' = fresh + c.drew
  /\ calls' = calls + c.recorded
  /\ now' = r[4]
  /\ streak' = IF c.recorded = 1 THEN StreakAfterCall(c.id) ELSE streak
  /\ last' = VerdictOutcome(op, c)

\* what a call of recordFailedAttempt(reason) with outcome rec, made for the
\* identifier id, leaves behind
AfterRecord(op, id, rec, r) ==
  /\ Tight(r, ReadsMade(1, id.id))
  /\ calls < MaxCalls
  /\ fresh + id.drew <= MaxFresh
  /\ SetMemory(rec.m)
  /\ fresh' = fresh + id.drew
  /\ calls' = calls + 1
  /\ now' = r[4]
  /\ streak' = StreakAfterCall(id.id)
  /\ last' = [RecordOutcome(op, id.id) EXCEPT !.threw = rec.threw]

\* a call of blacklistSystem.checkBlacklist()
CheckBlacklist ==
  /\ \E r \in Reads(4) :
       \E c \in {checkBlacklist(Memory, fresh + 1, r)} : AfterCheck("checkBlacklist", c, r)
  /\ UNCHANGED <<browser, storageMode, visitorIP, ipPending, userPreferences, page>>

\* a call of blacklistSystem.recordFailedAttempt(reason)
RecordFailedAttempt ==
  /\ \E text \in ApiReasons, r \in Reads(4) :
       \E id \in {getClientIdentifier(fresh + 1)},
          rec \in {recordFailedAttempt(Memory, Reason(text, NoIP), fresh + 1, r)} :
         AfterRecord("recordFailedAttempt", id, rec, r)
  /\ UNCHANGED <<browser, storageMode, visitorIP, ipPending, userPreferences, page>>

Next ==
  \/ Tick
  \/ Tamper
  \/ Reload
  \/ SystemInit
  \/ DetectIPResolved
  \/ CheckBlacklist
  \/ RecordFailedAttempt

Spec == Init /\ [][Next]_vars

(***************************************************************************)
(* The CAPTCHA page: initializeCaptcha and handleFormSubmit                *)
(***************************************************************************)
\* initializeCaptcha() up to its first await: the blacklist pre-check
InitializeCaptcha ==
  /\ \/ page.state = "loading"
     \/ page.state = "error" /\ page.retryCount < maxRetries
  /\ \E r \in Reads(4) :
       \E c \in {checkBlacklist(Memory, fresh + 1, r)} :
         /\ AfterCheck("initializeCaptcha", c, r)
         \* showBlockedMessage(reason), or go on to the fingerprint
         /\ page' = [page EXCEPT !.state = IF c.result.blocked THEN "blocked"
                                           ELSE "fingerprinting"]
  /\ UNCHANGED <<browser, storageMode, visitorIP, ipPending, userPreferences>>

\* initializeCaptcha() after the awaited fingerprint: the second
\* collectFingerprintComponents() and the suspicious-pattern check
CaptchaContinue ==
  /\ page.state = "fingerprinting"
  /\ IF Env.collectorThrows \/ Env.userAgent = Undefined
     THEN \* the catch block: showErrorWithRetry
          /\ page' = [page EXCEPT !.state = "error", !.retryCount = @ + 1]
          /\ last' = [NoOutcome EXCEPT !.op = "showErrorWithRetry"]
          /\ UNCHANGED <<now, blacklistStore, failedStore, failedAttempts,
                         blacklistedIPs, fresh, calls, streak>>
     ELSE IF hasTooManySuspiciousPatterns[browser]
     THEN /\ \E r \in Reads(4) :
               \E id \in {getClientIdentifier(fresh + 1)},
                  rec \in {recordFailedAttempt(Memory, Reason("suspicious_fingerprint", NoIP),
                                               fresh + 1, r)} :
                 AfterRecord("showBlockedMessage", id, rec, r)
          /\ page' = [page EXCEPT !.state = "blocked"]
     ELSE \* continueInitialization
          /\ page' = [page EXCEPT !.state = "form"]
          /\ last' = [NoOutcome EXCEPT !.op = "continueInitialization"]
          /\ UNCHANGED <<now, blacklistStore, failedStore, failedAttempts,
                         blacklistedIPs, fresh, calls, streak>>
  /\ UNCHANGED <<browser, storageMode, visitorIP, ipPending, userPreferences>>

\* handleFormSubmit finds the honeypot filled or no interaction recorded
FormSubmitFailure ==
  /\ page.state = "form"
  /\ \E text \in FormReasons, r \in Reads(4) :
       \E id \in {getClientIdentifier(fresh + 1)},
          rec \in {recordFailedAttempt(Memory, Reason(text, NoIP), fresh + 1, r)} :
         AfterRecord("handleFormSubmit", id, rec, r)
  /\ UNCHANGED <<browser, storageMode, visitorIP, ipPending, userPreferences, page>>

InitCaptcha == InitIn(CaptchaBrowsers)

NextCaptcha ==
  \/ Tick
  \/ Reload
  \/ SystemInit
  \/ DetectIPResolved
  \/ InitializeCaptcha
  \/ CaptchaContinue
  \/ FormSubmitFailure

SpecCaptcha == InitCaptcha /\ [][NextCaptcha]_vars

(***************************************************************************)
(* One browser profile visited under more than one user agent              *)
(***************************************************************************)
LedgerBrowsers == {"chrome", "baidu"}

\* a new page load after the profile's user agent has changed (an update, a
\* device emulation): localStorage is kept, the script context is fresh
RelaunchIn(browsers) ==
  /\ browser' \in browsers \ {browser}
  /\ failedAttempts' = EmptyMap
  /\ blacklistedIPs' = <<>>
  /\ visitorIP' = NoIP
  /\ ipPending' = FALSE
  /\ userPreferences' = DefaultPreferences
  /\ page' = [state |-> "loading", retryCount |-> 0]
  /\ calls' = 0
  /\ streak' = NoStreak
  /\ last' = NoOutcome
  /\ UNCHANGED <<now, storageMode, blacklistStore, failedStore, fresh>>

Relaunch == RelaunchIn(LedgerBrowsers)

InitLedger == InitIn(LedgerBrowsers)

NextLedger ==
  \/ Tick
  \/ Relaunch
  \/ SystemInit
  \/ RecordFailedAttempt

SpecLedger == InitLedger /\ [][NextLedger]_vars

\* one profile with working storage visited under two user agents that
\* checkBlacklist() admits, the pages calling checkBlacklist() as well
BlockBrowsers == {"chrome", "hardened"}

RelaunchBlock == RelaunchIn(BlockBrowsers)

InitBlock == InitIn(BlockBrowsers) /\ storageMode = "ok"

NextBlock ==
  \/ Tick
  \/ RelaunchBlock
  \/ SystemInit
  \/ RecordFailedAttempt
  \/ CheckBlacklist

SpecBlock == InitBlock /\ [][NextBlock]_vars

\* one profile with working storage visited under two user agents whose
\* identifier is encoded and one whose identifier is drawn afresh by every
\* call, so that one session holds the records of several clients
IsolationBrowsers == {"chrome", "hardened", "unicode"}

RelaunchIsolation == RelaunchIn(IsolationBrowsers)

InitIsolation == InitIn(IsolationBrowsers) /\ storageMode = "ok"

NextIsolation ==
  \/ Tick
  \/ RelaunchIsolation
  \/ SystemInit
  \/ RecordFailedAttempt

SpecIsolation == InitIsolation /\ [][NextIsolation]_vars

(***************************************************************************)
(* Direct calls of the IP functions                                        *)
(***************************************************************************)
\* addresses and ranges the functions are called with
ProbeIPs ==
  {<<8,8,8,8>>, <<104,164,173,50>>, <<104,164,173,222>>, <<104,164,174,1>>,
   <<154,28,229,126>>, <<154,28,230,1>>, <<152,32,99,64>>, <<200,1,2,3>>,
   <<128,0,0,0>>, <<127,255,255,255>>, <<0,0,0,0>>, <<255,255,255,255>>}
ProbeRangeIPs ==
  {<<104,164,173,0>>, <<154,28,229,0>>, <<0,0,0,0>>, <<200,1,2,0>>, <<128,0,0,0>>}
ProbeCidrs == [rangeIP : ProbeRangeIPs, prefixLength : 0..32]

\* blacklistSystem.isIPInRange(ip, cidr)
IsIPInRangeCall ==
  /\ Called("isIPInRange")
  /\ last' = Return(isIPInRange(last.args[1], last.args[2]))
  /\ UNCHANGED <<now, browser, storageMode, blacklistStore, failedStore, failedAttempts,
                 blacklistedIPs, visitorIP, ipPending, userPreferences, page, fresh,
                 calls, streak>>

\* blacklistSystem.isIPBlocked(ip)
IsIPBlockedCall ==
  /\ Called("isIPBlocked")
  /\ last' = Return(isIPBlocked(last.args[1]))
  /\ UNCHANGED <<now, browser, storageMode, blacklistStore, failedStore, failedAttempts,
                 blacklistedIPs, visitorIP, ipPending, userPreferences, page, fresh,
                 calls, streak>>

InitIP ==
  InitWith({"chrome"},
           { Call("isIPInRange", <<ip, cidr>>) : ip \in ProbeIPs, cidr \in ProbeCidrs }
             \cup { Call("isIPBlocked", <<ip>>) : ip \in ProbeIPs })

NextIP ==
  \/ IsIPInRangeCall
  \/ IsIPBlockedCall

SpecIP == InitIP /\ [][NextIP]_vars

(***************************************************************************)
(* Direct calls of hasTooManySuspiciousPatterns                            *)
(***************************************************************************)
\* what the function reads of the browser, and the settings of the switches
SuspicionEnvironments ==
  [userAgent : {UA_chrome, UA_firefox, UA_chimera, UA_baidu},
   hasChrome : BOOLEAN, hasInstallTrigger : BOOLEAN, stackOK : BOOLEAN]
PatternSettings == [mismatchedUA : BOOLEAN, tamperedDOM : BOOLEAN]

\* blacklistSystem.hasTooManySuspiciousPatterns(fingerprint); the counts are
\* kept beside the verdict
HasTooManySuspiciousPatternsCall ==
  /\ Called("hasTooManySuspiciousPatterns")
  /\ \E c \in {SuspiciousCountsWith(last.args[1], last.args[2])} :
       last' = Return([suspiciousCount |-> c.suspiciousCount,
                       totalChecks |-> c.totalChecks,
                       verdict |-> tooSuspicious(c)])
  /\ UNCHANGED <<now, browser, storageMode, blacklistStore, failedStore, failedAttempts,
                 blacklistedIPs, visitorIP, ipPending, userPreferences, page, fresh,
                 calls, streak>>

InitSuspicion ==
  InitWith({"chrome"},
           { Call("hasTooManySuspiciousPatterns", <<e, p>>) :
               e \in SuspicionEnvironments, p \in PatternSettings })

NextSuspicion == HasTooManySuspiciousPatternsCall

SpecSuspicion == InitSuspicion /\ [][NextSuspicion]_vars

(***************************************************************************)
(* detectAutomation (fragment-handler.js)                                  *)
(***************************************************************************)
Str_headless == <<104,101,97,100,108,101,115,115>>
Str_phantomjs == <<112,104,97,110,116,111,109,106,115>>
Str_firefox == <<102,105,114,101,102,111,120>>
Str_brave == <<98,114,97,118,101>>
Str_safari == <<115,97,102,97,114,105>>
Str_edge == <<101,100,103,101>>
Str_chrome == <<99,104,114,111,109,101>>
Str_mobile == <<109,111,98,105,108,101>>

\* automationScore is counted in halves of a point: 0.5 is 1, 3 is 6
\* results after the statements that precede the read of the user agent
AfterWebdriver(e) ==
  [webdriver |-> e.webdriver, headlessUserAgent |-> FALSE, phantomJS |-> FALSE,
   seleniumAttrs |-> FALSE, noPlugins |-> FALSE,
   automationScore |-> IF e.webdriver THEN 6 ELSE 0]

\* the block guarded by results.automationScore > 0, in halves of a point
SecondaryScore(e, ua) ==
  (IF e.languagesMissing THEN 1 ELSE 0)
  + (IF Includes(ua, Str_chrome) /\ ~e.hasChrome THEN 2 ELSE 0)
  + (IF Includes(ua, Str_mobile) /\ ~e.hasTouch THEN 1 ELSE 0)

\* results after the five unconditional checks; ua is the lower-cased user agent
AfterPrimary(e, ua) ==
  LET headless == Includes(ua, Str_headless) \/ Includes(ua, Str_phantomjs)
      noPlugins == /\ e.pluginCount = 0
                   /\ ~Includes(ua, Str_firefox) /\ ~Includes(ua, Str_brave)
                   /\ ~Includes(ua, Str_safari) /\ ~Includes(ua, Str_edge)
  IN [webdriver |-> e.webdriver, headlessUserAgent |-> headless,
      phantomJS |-> e.phantomGlobal, seleniumAttrs |-> e.seleniumAttribute,
      noPlugins |-> noPlugins,
      automationScore |-> (IF e.webdriver THEN 6 ELSE 0) + (IF headless THEN 4 ELSE 0)
                          + (IF e.phantomGlobal THEN 6 ELSE 0)
                          + (IF e.seleniumAttribute THEN 6 ELSE 0)
                          + (IF noPlugins THEN 1 ELSE 0)]

\* detectAutomation(): navigator.userAgent.toLowerCase() throws on an
\* undefined user agent and the catch returns what was found until then
WithSecondary(results, secondary) ==
  IF results.automationScore > 0
  THEN [results EXCEPT !.automationScore = @ + secondary]
  ELSE results

detectAutomationWith(e, ua) == WithSecondary(AfterPrimary(e, ua), SecondaryScore(e, ua))

detectAutomation(e) ==
  IF e.userAgent = Undefined THEN AfterWebdriver(e)
  ELSE detectAutomationWith(e, ToLowerCase(e.userAgent))

\* what detectAutomation reads of the browser
AutomationEnvironments ==
  [userAgent : {UA_chrome, UA_headless, UA_baidu, UA_unicode, UA_headless_mobile, Undefined},
   webdriver : BOOLEAN, phantomGlobal : BOOLEAN, seleniumAttribute : BOOLEAN,
   pluginCount : {0, 3}, languagesMissing : BOOLEAN, hasChrome : BOOLEAN,
   hasTouch : BOOLEAN]

DetectAutomationCall ==
  /\ Called("detectAutomation")
  /\ last' = Return(detectAutomation(last.args[1]))
  /\ UNCHANGED <<now, browser, storageMode, blacklistStore, failedStore, failedAttempts,
                 blacklistedIPs, visitorIP, ipPending, userPreferences, page, fresh,
                 calls, streak>>

InitAutomation ==
  InitWith({"chrome"}, { Call("detectAutomation", <<e>>) : e \in AutomationEnvironments })

NextAutomation == DetectAutomationCall

SpecAutomation == InitAutomation /\ [][NextAutomation]_vars

(***************************************************************************)
(* generateBrowserFingerprint (fragment-handler.js)                        *)
(***************************************************************************)
Null == <<>>
Str_sep3 == <<35,35,35>>
canvas_not_supported == <<"canvas_not_supported">>

\* SHA-256 followed by the hex conversion, taken as collision-free: the
\* digest of x is known by x
Digest(x) == <<"sha256", x>>

\* what the fingerprint functions read of the browser: canPlayType whether
\* the media elements answer canPlayType (detectAudioCodecs is unguarded),
\* dataURL the canvas output (Undefined: the canvas is blocked), battery how
\* navigator.getBattery behaves, subtle whether window.crypto.subtle exists
FingerprintEnvironments ==
  [userAgent : {UA_chrome, UA_unicode}, language : {Str_enUS},
   canPlayType : BOOLEAN, dataURL : {Str_dataURL_A, Undefined},
   battery : {"none", "resolves", "rejects", "never"}, subtle : BOOLEAN]

\* durations benchmarkPerformance can measure with performance.now()
Durations == {1, 2}

\* generateFallbackFingerprint(): the string, or Undefined where btoa throws
generateFallbackFingerprint(e) ==
  Encode_full(Join(<<e.userAgent, e.language>>, Str_sep3))

\* the value a build returns to its caller: a JavaScript string; mode and
\* components are kept beside it
Fulfilled(mode, chars, components) ==
  [state |-> "fulfilled", value |-> [type |-> "string", chars |-> chars],
   mode |-> mode, components |-> components]
Rejected == [state |-> "rejected", value |-> Null, mode |-> "none", components |-> Null]

\* the catch block of generateBrowserFingerprint
Fallback(e) ==
  IF generateFallbackFingerprint(e) = Undefined THEN Rejected
  ELSE Fulfilled("fallback", generateFallbackFingerprint(e), Null)

\* generateCanvasFingerprint(): its own try/catch covers the blocked canvas
\* and the missing digest
generateCanvasFingerprint(e) ==
  IF e.dataURL = Undefined \/ ~e.subtle THEN canvas_not_supported
  ELSE Digest(e.dataURL)

\* the build in progress: pc the await it is suspended at, components what
\* collectFingerprintComponents has gathered, results the outcomes of the
\* builds finished before
Building(pc, components, results) ==
  [pc |-> pc, components |-> components, results |-> results]

NoComponents ==
  [userAgent |-> Null, audioCodecs |-> Null, canvasHash |-> Null, batteryInfo |-> Null,
   performanceMetrics |-> 0, adBlocker |-> FALSE]

\* a build ends with outcome: the call returns when it was the second build
Finish(outcome) ==
  IF Len(last.ret.results) = 1
  THEN Return(Building("done", NoComponents, Append(last.ret.results, outcome)))
  ELSE [last EXCEPT !.ret = Building("between", NoComponents,
                                     Append(last.ret.results, outcome))]

Suspended(pc) == Called("generateBrowserFingerprint") /\ last.ret.pc = pc
Suspend(pc, components) ==
  [last EXCEPT !.ret = Building(pc, components, last.ret.results)]

FingerprintFrame ==
  UNCHANGED <<now, browser, storageMode, blacklistStore, failedStore, failedAttempts,
              blacklistedIPs, visitorIP, ipPending, userPreferences, page, fresh,
              calls, streak>>

\* generateBrowserFingerprint() up to the first await of
\* collectFingerprintComponents: the basic reads and the codec detection
BuildStart ==
  /\ Suspended("start") \/ Suspended("between")
  /\ \E e \in {last.args[1]} :
       last' = IF ~e.canPlayType THEN Finish(Fallback(e))
               ELSE Suspend("canvas", [NoComponents EXCEPT !.userAgent = e.userAgent,
                                                           !.audioCodecs = <<"codecs">>])
  /\ FingerprintFrame

\* the canvas hash settles; detectFonts runs and getBatteryInfo is awaited
CanvasSettled ==
  /\ Suspended("canvas")
  /\ last' = Suspend("battery", [last.ret.components EXCEPT
                                   !.canvasHash = generateCanvasFingerprint(last.args[1])])
  /\ FingerprintFrame

\* getBatteryInfo() settles: no getBattery, a battery, or a rejection; then
\* the remaining synchronous collectors run and detectAdBlocker is awaited
BatterySettled ==
  /\ Suspended("battery")
  /\ last.args[1].battery # "never"
  /\ \E d \in Durations :
       last' = Suspend("adblock", [last.ret.components EXCEPT
                 !.batteryInfo = IF last.args[1].battery = "resolves"
                                 THEN <<"battery">> ELSE Null,
                 !.performanceMetrics = d])
  /\ FingerprintFrame

\* the 100 ms timer of detectAdBlocker fires; collectFingerprintComponents
\* returns and the digest is requested
AdBlockerTimer ==
  /\ Suspended("adblock")
  /\ \E e \in {last.args[1]} :
       last' = IF ~e.subtle THEN Finish(Fallback(e))
               ELSE Suspend("digest", last.ret.components)
  /\ FingerprintFrame

\* crypto.subtle.digest settles
DigestSettled ==
  /\ Suspended("digest")
  /\ last' = Finish(Fulfilled("strong", Digest(last.ret.components), last.ret.components))
  /\ FingerprintFrame

InitFingerprint ==
  InitWith({"chrome"},
           { [Call("generateBrowserFingerprint", <<e>>) EXCEPT
                !.ret = Building("start", NoComponents, <<>>)] :
               e \in FingerprintEnvironments })

NextFingerprint ==
  \/ BuildStart
  \/ CanvasSettled
  \/ BatterySettled
  \/ AdBlockerTimer
  \/ DigestSettled

SpecFingerprint == InitFingerprint /\ [][NextFingerprint]_vars

\* every step of a build is run by the event loop once it is enabled; a
\* battery promise that never settles enables none
SpecFingerprintFair == SpecFingerprint /\ WF_vars(NextFingerprint)

(***************************************************************************)
(* getClientIdentifier derived in environments that differ in one          *)
(* component                                                               *)
(***************************************************************************)
IdentifierEnvironments ==
  [userAgent : {UA_chrome, UA_firefox, UA_unicode}, language : {Str_enUS, Str_frFR},
   width : {1920, 1024}, height : {1080}, platform : {Str_Win32, Str_Linux},
   dataURL : {Str_dataURL_A, Undefined}, allowCanvas : BOOLEAN]

IdComponentNames == {"none", "language", "screen", "platform", "canvas"}

\* the environment e with the component named changed
Changed(e, name) ==
  CASE name = "language" -> [e EXCEPT !.language = IF @ = Str_enUS THEN Str_frFR ELSE Str_enUS]
    [] name = "screen" -> [e EXCEPT !.width = IF @ = 1920 THEN 1024 ELSE 1920]
    [] name = "platform" -> [e EXCEPT !.platform = IF @ = Str_Win32 THEN Str_Linux ELSE Str_Win32]
    [] name = "canvas" -> [e EXCEPT !.dataURL = IF @ = Str_dataURL_A THEN Str_dataURL_B
                                                 ELSE Str_dataURL_A]
    [] OTHER -> e

\* getClientIdentifier() in the environment e, rnd the next Math.random() draw
getClientIdentifierIn(e, rnd) ==
  IdentifierOr(Encode(Join(IdComponents(e, e.allowCanvas), Str_Bar)), rnd).id

\* two derivations in e and one in the changed environment, each with the
\* next draw
GetClientIdentifierCall ==
  /\ Called("getClientIdentifier")
  /\ last' = Return([first |-> getClientIdentifierIn(last.args[1], 1),
                     second |-> getClientIdentifierIn(last.args[1], 2),
                     other |-> getClientIdentifierIn(Changed(last.args[1], last.args[2]), 3)])
  /\ FingerprintFrame

InitIdentifier ==
  InitWith({"chrome"}, { Call("getClientIdentifier", <<e, name>>) :
                           e \in IdentifierEnvironments, name \in IdComponentNames })

NextIdentifier == GetClientIdentifierCall

SpecIdentifier == InitIdentifier /\ [][NextIdentifier]_vars

(***************************************************************************)
(* redirectToProtectedContent                                              *)
(***************************************************************************)
\* tokenAge > 600000
tokenValidity == 600000

\* a localStorage item: getItem returns null where it is not present
NoItem == [present |-> FALSE, value |-> <<>>]
Item(v) == [present |-> TRUE, value |-> v]

Tokens == {<<116, 49>>, <<116, 50>>}
\* the values of Date.now() at which verification stored the token
StampValues == {1000000, 1000001}
\* the values of Date.now() at which the redirect runs
RedirectTimes == {1600000, 1600001}

IsDigit(c) == c >= 48 /\ c <= 57

LeadingDigits(s) ==
  SubSeq(s, 1, CHOOSE k \in 0..Len(s) :
                 /\ \A i \in 1..k : IsDigit(s[i])
                 /\ (k = Len(s) \/ ~IsDigit(s[k + 1])))

RECURSIVE DecimalValue(_)
DecimalValue(d) ==
  IF Len(d) = 0 THEN 0 ELSE DecimalValue(SubSeq(d, 1, Len(d) - 1)) * 10 + (d[Len(d)] - 48)

\* parseInt(s): the value of the leading digits, NaN where there are none
parseInt(s) == [nan |-> Len(LeadingDigits(s)) = 0, n |-> DecimalValue(LeadingDigits(s))]

\* the validation of redirectToProtectedContent(token) run at clock t with
\* the two items in localStorage; storedToken stays undefined and
\* tokenTimestamp 0 where the reads throw
redirectToProtectedContent(token, secureToken, tokenTimestampItem, readsThrow, t) ==
  LET storedToken == IF readsThrow THEN [undefined |-> TRUE, item |-> NoItem]
                     ELSE [undefined |-> FALSE, item |-> secureToken]
      tokenTimestamp == IF readsThrow \/ ~tokenTimestampItem.present
                           \/ Len(tokenTimestampItem.value) = 0
                        THEN parseInt(<<48>>)
                        ELSE parseInt(tokenTimestampItem.value)
      skipTokenValidation ==
        /\ ~storedToken.undefined /\ ~storedToken.item.present
        /\ (~tokenTimestampItem.present \/ Len(tokenTimestampItem.value) = 0)
  IN IF skipTokenValidation
     THEN [navigated |-> TRUE, error |-> "none", skipped |-> TRUE]
     ELSE IF \/ storedToken.undefined \/ ~storedToken.item.present
             \/ Len(storedToken.item.value) = 0 \/ storedToken.item.value # token
     THEN [navigated |-> FALSE, error |-> "Invalid security token", skipped |-> FALSE]
     ELSE IF ~tokenTimestamp.nan /\ t - tokenTimestamp.n > tokenValidity
     THEN [navigated |-> FALSE, error |-> "Security token expired", skipped |-> FALSE]
     ELSE [navigated |-> TRUE, error |-> "none", skipped |-> FALSE]

\* the call made by the submit handler's timer, in a page whose localStorage
\* throws on reads or holds what earlier verifications left
RedirectToProtectedContentCall ==
  /\ Called("redirectToProtectedContent")
  /\ last' = Return(redirectToProtectedContent(last.args[1], last.args[2], last.args[3],
                                               GetItemThrows, last.args[4]))
  /\ FingerprintFrame

InitRedirect ==
  InitWith({"chrome"},
           { Call("redirectToProtectedContent", <<token, secureToken, stamp, t>>) :
               token \in Tokens,
               secureToken \in {NoItem} \cup { Item(v) : v \in Tokens },
               stamp \in {NoItem} \cup { Item(NumToStr(n)) : n \in StampValues },
               t \in RedirectTimes })

NextRedirect == RedirectToProtectedContentCall

SpecRedirect == InitRedirect /\ [][NextRedirect]_vars

TypeOK ==
  /\ now \in ClockValues
  /\ browser \in Browsers
  /\ calls \in 0..MaxCalls
  /\ fresh \in 0..MaxFresh
  /\ streak \in [ClientIds -> 0..maxFailedAttempts]

(***************************************************************************)
(* Properties of the penalty ledger and the decision facade                *)
(***************************************************************************)
\* the store can be read and written and holds no malformed value
StorageHealthy == storageMode = "ok" /\ blacklistStore.kind # "garbage"

\* the first three conditions of checkBlacklist, in the state it ran in
IPCondition == visitorIP # NoIP /\ isIPBlocked(visitorIP)
BotCondition == botScore[browser] >= 2
ToolCondition == securityToolMatch[browser]
AgentUnreadable == Env.userAgent = Undefined

\* the last step was a recordFailedAttempt call for id, whoever made it
JustRecorded(id) == last.recorded = 1 /\ last.id = id
\* the last step was a checkBlacklist call that derived id
JustEvaluated(id) == last.op = "checkBlacklist" /\ last.id = id

\* C1: right after a recordFailedAttempt call for a client that started with
\* no failure record and no stored entry, the client has no entry if the call
\* was the first or second of the run, and has one if it was the third
\* (maxFailedAttempts) and the store is readable, writable and well formed.
C1_ThresholdPromotion ==
  \A id \in ClientIds :
    JustRecorded(id) =>
      /\ (streak[id] >= 1 /\ streak[id] < maxFailedAttempts) => ~HasEntry(id)
      /\ (streak[id] = maxFailedAttempts /\ StorageHealthy) => HasEntry(id)

C1_Witness ==
  \E id \in ClientIds :
    JustRecorded(id) /\ streak[id] = maxFailedAttempts /\ StorageHealthy /\ HasEntry(id)

\* C2: with a readable store, isClientBlacklisted(id) at time now is true
\* exactly when the ledger holds an entry for id and now <= its expiry, the
\* instant now = expiry included.
C2_BlacklistedUntilExpiry ==
  \A id \in ClientIds :
    (storageMode # "down" /\ blacklistStore.kind # "garbage") =>
      (isClientBlacklisted(Memory, id, now).ret
         <=> (HasEntry(id) /\ now <= EntryOf(id).expires))

\* C3: right after the recordFailedAttempt call that reaches the threshold,
\* the client has a stored entry and its failure record is gone, whatever the
\* storage write did.
C3_AtomicPromotion ==
  \A id \in ClientIds :
    (JustRecorded(id) /\ streak[id] = maxFailedAttempts) =>
      (HasEntry(id) /\ id \notin DOMAIN failedAttempts)

\* C4: for a client that meets no static-IP, known-bot or security-tool
\* condition, with a working store: once three consecutive failures have been
\* recorded for its identifier the ledger holds its entry, and every
\* checkBlacklist made for that identifier before the entry expires answers
\* blocked with reason "blacklisted".
C4_EndToEnd ==
  \A id \in ClientIds :
    (/\ JustEvaluated(id)
     /\ ~IPCondition /\ ~BotCondition /\ ~ToolCondition
     /\ blacklistStore.kind # "garbage") =>
      /\ (streak[id] = maxFailedAttempts /\ storageMode = "ok") => HasEntry(id)
      /\ (HasEntry(id) /\ storageMode # "down" /\ last.at < EntryOf(id).expires)
           => (last.blocked /\ last.reason = "blacklisted")

C4_Witness ==
  \E id \in ClientIds :
    /\ JustEvaluated(id) /\ streak[id] = maxFailedAttempts
    /\ ~IPCondition /\ ~BotCondition /\ ~ToolCondition
    /\ last.blocked /\ last.reason = "blacklisted"

C6_DenyRecordsFailure ==
  (/\ last.op = "checkBlacklist"
   /\ last.blocked
   /\ last.reason \in {"known_bot", "security_tool", "blacklisted"}) =>
    last.recorded = 1

\* C7: a visit in which a step of the evaluation fails internally (a
\* fingerprint collector throws, the user agent cannot be read) is never left
\* on the error page or the blocked page.
C7_FailOpen ==
  (Env.collectorThrows \/ AgentUnreadable) => page.state \notin {"error", "blocked"}

\* C8: with localStorage unavailable (getItem and setItem throw), no ledger
\* operation lets an exception reach its caller, in any state a sequence of
\* calls leads to.
C8_NoThrowWhenUnavailable ==
  storageMode = "down" =>
    /\ ~last.threw
    /\ ~loadBlacklist(Memory).threw
    /\ ~saveFailedAttempts(Memory).threw
    /\ ~cleanupExpiredEntries(Memory, [i \in 1..Len(Parse(blacklistStore)) |-> now]).threw
    /\ ~recordFailedAttempt(Memory, Reason("honeypot_filled", NoIP), fresh + 1,
                            [i \in 1..4 |-> now]).threw
    /\ \A id \in ClientIds :
         /\ ~isClientBlacklisted(Memory, id, now).threw
         /\ ~addToBlacklist(Memory, id, <<>>, now, now).threw

C8_Witness ==
  /\ storageMode = "down"
  /\ last.recorded = 1
  /\ last.id \in ClientIds
  /\ streak[last.id] = maxFailedAttempts
  /\ ~last.threw

\* C9: with localStorage unavailable for the whole page load, right after the
\* third consecutive recordFailedAttempt for a client isClientBlacklisted
\* answers true for it.
C9_InMemoryDegradation ==
  \A id \in ClientIds :
    (storageMode = "down" /\ JustRecorded(id) /\ streak[id] = maxFailedAttempts) =>
      isClientBlacklisted(Memory, id, now).ret

\* C10: while the stored value is malformed isClientBlacklisted answers false
\* for every client, and the next promotion, made with a store that reads and
\* writes, leaves a well-formed ledger holding the promoted client.
C10_CorruptRecovery ==
  /\ blacklistStore.kind = "garbage" =>
       \A id \in ClientIds : ~isClientBlacklisted(Memory, id, now).ret
  /\ \A id \in ClientIds :
       (storageMode = "ok" /\ JustRecorded(id) /\ streak[id] = maxFailedAttempts) =>
         (blacklistStore.kind = "map" /\ HasEntry(id))

(***************************************************************************)
(* Properties of the cleanup pass                                          *)
(***************************************************************************)
\* es holds the entry e, field for field
Stored(es, e) == \E i \in 1..Len(es) : es[i] = e

\* C11: with working storage, a cleanup pass (the one init() runs) removes
\* from the store exactly the entries whose expiry lies before the clock: no
\* entry that expired before the pass began is stored after it, every entry
\* whose expiry is not before the clock at the end of the pass is stored
\* with unchanged fields, and the pass adds nothing.  At one clock
\* value the two bounds are the same instant.
C11_CleanupExact ==
  [][(last'.op = "init" /\ StorageHealthy) =>
       /\ \A i \in 1..Len(Parse(blacklistStore')) :
            /\ Parse(blacklistStore')[i].expires >= now
            /\ Stored(Parse(blacklistStore), Parse(blacklistStore')[i])
       /\ \A i \in 1..Len(Parse(blacklistStore)) :
            Parse(blacklistStore)[i].expires >= now'
              => Stored(Parse(blacklistStore'), Parse(blacklistStore)[i])]_vars

\* an init() has just taken an expired entry out of a store and left another,
\* not yet expired, in it
C11_Witness ==
  /\ last.op = "init" /\ StorageHealthy
  /\ last.removed >= 1
  /\ \E i \in 1..Len(Parse(blacklistStore)) : Parse(blacklistStore)[i].expires >= now

\* the Date.now() reads of a cleanup pass over the store of m made while the
\* clock stands at t
PassAt(m, t) == [i \in 1..Len(Parse(m.blacklistStore)) |-> t]

\* what isClientBlacklisted answers in m at clock t, client by client
Answers(m, t) == [id \in ClientIds |-> isClientBlacklisted(m, id, t).ret]

\* C12: in every reachable state and at every clock value from now on, a
\* cleanup pass followed by a second pass at the same clock value leaves the
\* store and the runtime list exactly as the first pass left them, and the
\* first pass changes the answer of isClientBlacklisted for no client.
C12_CleanupIdempotentSafe ==
  \A t \in ClockValues :
    t >= now =>
      \E once \in {cleanupExpiredEntries(Memory, PassAt(Memory, t))} :
        /\ cleanupExpiredEntries(once.m, PassAt(once.m, t)).m = once.m
        /\ Answers(once.m, t) = Answers(Memory, t)

\* an init() has just taken an expired entry out of the store while another
\* client is still blacklisted
C12_Witness ==
  /\ last.op = "init"
  /\ last.removed >= 1
  /\ \E id \in ClientIds : isClientBlacklisted(Memory, id, now).ret

(***************************************************************************)
(* Properties of the stored entries                                        *)
(***************************************************************************)
\* C13: every entry of the stored ledger expires exactly blacklistDuration
\* after the instant it was added.
C13_ExpiryIsAddedPlusDuration ==
  \A i \in 1..Len(Parse(blacklistStore)) :
    Parse(blacklistStore)[i].expires = Parse(blacklistStore)[i].added + DurationMs

(***************************************************************************)
(* Properties of the IP functions                                          *)
(***************************************************************************)
\* the top n bits of the octets x and y are equal
SameTopBitsOfOctet(x, y, n) == x \div (2 ^ (8 - n)) = y \div (2 ^ (8 - n))

\* the top p bits of the addresses a and b are equal
SameTopBits(a, b, p) ==
  /\ \A k \in 1..(p \div 8) : a[k] = b[k]
  /\ p % 8 # 0 => SameTopBitsOfOctet(a[(p \div 8) + 1], b[(p \div 8) + 1], p % 8)

\* C14: isIPInRange(a, r/p) is true exactly when the top p bits of a and r
\* are equal, for every prefix length 0..32; isIPBlocked(a) is true exactly
\* when a is on the static list or inside a configured range; 104.164.173.50
\* is blocked and 8.8.8.8 is not.
C14_PrefixMatch ==
  /\ Answered("isIPInRange") =>
       last.ret = SameTopBits(last.args[1], last.args[2].rangeIP, last.args[2].prefixLength)
  /\ Answered("isIPBlocked") =>
       /\ last.ret = (\/ \E i \in DOMAIN knownMaliciousIPs : knownMaliciousIPs[i] = last.args[1]
                      \/ \E i \in DOMAIN blockedIPRanges :
                           SameTopBits(last.args[1], blockedIPRanges[i].rangeIP,
                                       blockedIPRanges[i].prefixLength))
       /\ last.args[1] = <<104,164,173,50>> => last.ret
       /\ last.args[1] = <<8,8,8,8>> => ~last.ret

(***************************************************************************)
(* Properties of the IP check within the page load                         *)
(***************************************************************************)
\* init() has started the IP detection in this page load
DetectionStarted == ipPending \/ visitorIP # NoIP

\* C15: once init() has started the IP detection, the blacklist pre-check of
\* a visitor whose address is on the static list or inside a blocked range
\* denies with reason blocked_ip, whether or not the detection has resolved.
C15_BlockedIPAnyInterleaving ==
  (last.op = "initializeCaptcha" /\ DetectionStarted /\ isIPBlocked(Env.address))
    => (last.blocked /\ last.reason = "blocked_ip")

(***************************************************************************)
(* Properties of the failure records                                       *)
(***************************************************************************)
\* the failures counted toward the entry e
CountedFailures(e) == e.reasons

\* C16: a promotion counts only failures that fall within the trailing
\* period: the failures that produced a stored entry lie no further apart
\* than the period (blacklistDuration, the one duration the ledger has).
C16_TrailingWindow ==
  \A i \in 1..Len(Parse(blacklistStore)) :
    \E fs \in {CountedFailures(Parse(blacklistStore)[i])} :
      fs[Len(fs)].timestamp - fs[1].timestamp <= DurationMs

\* the records localStorage['captcha_failed_attempts'] holds
StoredRecords == IF failedStore.kind = "map" THEN failedStore.value ELSE EmptyMap

\* C17: a failure record below the threshold does not outlive its page load:
\* after init() in a page load that has recorded no failure, persistent
\* storage holds no failure record and the failure count of every client is
\* zero (no record in memory).
C17_RecordsDieWithSession ==
  (last.op = "init" /\ streak = NoStreak)
    => (StoredRecords = EmptyMap /\ failedAttempts = EmptyMap)

(***************************************************************************)
(* Properties of the suspicious-pattern evaluation                         *)
(***************************************************************************)
\* the number of switches that are on
EnabledChecks(patterns) ==
  (IF patterns.mismatchedUA THEN 1 ELSE 0) + (IF patterns.tamperedDOM THEN 1 ELSE 0)

\* C18: the verdict is "too suspicious" exactly when at least one check is
\* enabled and 10 * suspiciousCount > 3 * checkedCount; with no check enabled
\* the verdict is not suspicious.
C18_Verdict ==
  Answered("hasTooManySuspiciousPatterns") =>
    /\ last.ret.totalChecks = EnabledChecks(last.args[2])
    /\ last.ret.verdict = (/\ EnabledChecks(last.args[2]) > 0
                           /\ 10 * last.ret.suspiciousCount
                                > 3 * EnabledChecks(last.args[2]))
    /\ EnabledChecks(last.args[2]) = 0 => ~last.ret.verdict

\* a call in which one of two enabled checks found something (ratio one
\* half) has answered "too suspicious"
C18_Witness ==
  /\ Answered("hasTooManySuspiciousPatterns")
  /\ last.ret.totalChecks = 2 /\ last.ret.suspiciousCount = 1
  /\ last.ret.verdict

\* the number of checks that are on and whose condition holds in e: the
\* identity/feature mismatch and the tampered stack
HoldingChecks(e, patterns) ==
  (IF /\ patterns.mismatchedUA
      /\ \/ Includes(ToLowerCase(e.userAgent), <<99,104,114,111,109,101>>) /\ ~e.hasChrome
         \/ Includes(ToLowerCase(e.userAgent), <<102,105,114,101,102,111,120>>)
              /\ ~e.hasInstallTrigger
   THEN 1 ELSE 0)
  + (IF patterns.tamperedDOM /\ ~e.stackOK THEN 1 ELSE 0)

\* C19: each enabled check adds one to checkedCount and each check whose
\* condition holds adds one to suspiciousCount, so suspiciousCount never
\* exceeds checkedCount, also for a user agent that names both families
\* while both markers are absent.
C19_CountsBounded ==
  Answered("hasTooManySuspiciousPatterns") =>
    /\ last.ret.totalChecks = EnabledChecks(last.args[2])
    /\ last.ret.suspiciousCount = HoldingChecks(last.args[1], last.args[2])
    /\ last.ret.suspiciousCount <= last.ret.totalChecks

(***************************************************************************)
(* Properties of detectAutomation                                          *)
(***************************************************************************)
\* the user agent of e contains token, letter case apart
Names(e, token) == e.userAgent # Undefined /\ Includes(ToLowerCase(e.userAgent), token)

\* the sum of the weights of the primary predicates true in e, in halves of
\* a point; a predicate about an unreadable user agent is not true
PrimarySum(e) ==
  (IF e.webdriver THEN 6 ELSE 0)
  + (IF Names(e, Str_headless) \/ Names(e, Str_phantomjs) THEN 4 ELSE 0)
  + (IF e.phantomGlobal THEN 6 ELSE 0)
  + (IF e.seleniumAttribute THEN 6 ELSE 0)
  + (IF /\ e.pluginCount = 0 /\ e.userAgent # Undefined
        /\ ~Names(e, Str_firefox) /\ ~Names(e, Str_brave)
        /\ ~Names(e, Str_safari) /\ ~Names(e, Str_edge)
     THEN 1 ELSE 0)

\* the sum of the weights of the secondary predicates true in e
SecondarySum(e) ==
  (IF e.languagesMissing THEN 1 ELSE 0)
  + (IF Names(e, Str_chrome) /\ ~e.hasChrome THEN 2 ELSE 0)
  + (IF Names(e, Str_mobile) /\ ~e.hasTouch THEN 1 ELSE 0)

\* C20: automationScore is the sum of the weights of the true primary
\* predicates, plus the weights of the true secondary predicates when that
\* sum is positive; it is 0 when no primary predicate is true and always
\* within 0..13.5 (27 halves).
C20_ScoreIsWeightedSum ==
  Answered("detectAutomation") =>
    \E primary \in {PrimarySum(last.args[1])} :
      /\ last.ret.automationScore =
           primary + (IF primary > 0 THEN SecondarySum(last.args[1]) ELSE 0)
      /\ primary = 0 => last.ret.automationScore = 0
      /\ last.ret.automationScore \in 0..27

(***************************************************************************)
(* Properties of the fingerprint build                                     *)
(***************************************************************************)
\* two successive builds in one unchanged environment have both ended
BothBuilt == Answered("generateBrowserFingerprint")
FirstBuild == last.ret.results[1]
SecondBuild == last.ret.results[2]
BuildEnvironment == last.args[1]

\* C21: two builds over identical signal values return the identical digest,
\* and two successive builds in an unchanged environment return the same
\* fingerprint string.
C21_Determinism ==
  (BothBuilt /\ FirstBuild.state = "fulfilled" /\ SecondBuild.state = "fulfilled") =>
    /\ FirstBuild.components = SecondBuild.components
         => FirstBuild.value = SecondBuild.value
    /\ FirstBuild.value = SecondBuild.value

\* the builds that have ended
Built == { last.ret.results[k] : k \in 1..Len(last.ret.results) }

\* the collectors that throw or are unsupported in e
FailingCollectors(e) ==
  (IF e.canPlayType THEN 0 ELSE 1) + (IF e.dataURL = Undefined THEN 1 ELSE 0)
  + (IF e.battery \in {"none", "rejects"} THEN 1 ELSE 0)

\* C22: with the digest available and exactly one collector throwing or
\* unsupported, a build completes in strong mode with that signal at its
\* sentinel and the other signals collected normally.
C22_CollectorFailureContained ==
  (last.op = "generateBrowserFingerprint" /\ BuildEnvironment.subtle
     /\ FailingCollectors(BuildEnvironment) = 1) =>
    \A r \in Built :
      /\ r.state = "fulfilled"
      /\ r.mode = "strong"
      /\ r.components.userAgent = BuildEnvironment.userAgent
      /\ r.components.canvasHash =
           (IF BuildEnvironment.dataURL = Undefined THEN canvas_not_supported
            ELSE Digest(BuildEnvironment.dataURL))
      /\ r.components.batteryInfo =
           (IF BuildEnvironment.battery = "resolves" THEN <<"battery">> ELSE Null)
      /\ r.components.audioCodecs =
           (IF BuildEnvironment.canPlayType THEN <<"codecs">> ELSE Null)

\* C23: without the digesting primitive a build ends with the weak
\* fingerprint, and the value a build returns carries the mode that
\* produced it.
C23_ModeCarried ==
  last.op = "generateBrowserFingerprint" =>
    \A r \in Built :
      /\ ~BuildEnvironment.subtle => (r.state = "fulfilled" /\ r.mode = "fallback")
      /\ r.state = "fulfilled" => "mode" \in DOMAIN r.value

\* C24: the build terminates: the first call of generateBrowserFingerprint
\* eventually returns, whatever the probes do.
C24_BuildTerminates == <>(last.op = "generateBrowserFingerprint" /\ Built # {})

\* the persisted blacklist, the runtime blacklist list and the failure map
\* with its persisted copy
LedgerState == <<blacklistStore, blacklistedIPs, failedAttempts, failedStore>>

NonDecreasing(reasons) ==
  \A i \in 1..(Len(reasons) - 1) : reasons[i].timestamp <= reasons[i + 1].timestamp

\* C26: every failure record of the in-memory map has a count between 1 and
\* maxFailedAttempts - 1 that equals the number of its reasons, reason
\* timestamps that are non-decreasing, and a firstAttempt no later than the
\* first of them.
C26_RecordWellFormed ==
  \A id \in DOMAIN failedAttempts :
    /\ failedAttempts[id].count >= 1
    /\ failedAttempts[id].count <= maxFailedAttempts - 1
    /\ failedAttempts[id].count = Len(failedAttempts[id].reasons)
    /\ NonDecreasing(failedAttempts[id].reasons)
    /\ failedAttempts[id].firstAttempt <= failedAttempts[id].reasons[1].timestamp

\* a record one failure short of promotion, whose failures were recorded at
\* different times
C26_Witness ==
  \E id \in DOMAIN failedAttempts :
    /\ failedAttempts[id].count = maxFailedAttempts - 1
    /\ failedAttempts[id].reasons[1].timestamp
         < failedAttempts[id].reasons[maxFailedAttempts - 1].timestamp

\* C27: with working storage and a clock that does not go back, no step
\* (recordFailedAttempt for any client, checkBlacklist, the cleanup of
\* init) makes isClientBlacklisted false for a client before the expiry of
\* the entry it has, and where the client's entry is replaced the new expiry
\* is not earlier than the old one.
C27_BlockNotShortened ==
  [][(StorageHealthy /\ StorageHealthy') =>
       \A i \in 1..Len(Parse(blacklistStore)) :
         /\ Parse(blacklistStore)[i].expires > now'
              => /\ HasKey(Parse(blacklistStore'), Parse(blacklistStore)[i].id)
                 /\ Get(Parse(blacklistStore'), Parse(blacklistStore)[i].id).expires > now'
         /\ HasKey(Parse(blacklistStore'), Parse(blacklistStore)[i].id)
              => Get(Parse(blacklistStore'), Parse(blacklistStore)[i].id).expires
                   >= Parse(blacklistStore)[i].expires]_vars

\* a client whose entry was loaded by init() has been promoted again, at a
\* later time than the first promotion, while another client's block runs
C27_Witness ==
  /\ StorageHealthy
  /\ \E i, j \in 1..Len(blacklistedIPs) :
       /\ i < j /\ blacklistedIPs[i] = blacklistedIPs[j]
       /\ HasEntry(blacklistedIPs[i])
       /\ EntryOf(blacklistedIPs[i]).expires > DurationMs
  /\ Len(Parse(blacklistStore)) >= 2
  /\ \A i \in 1..Len(Parse(blacklistStore)) : Parse(blacklistStore)[i].expires > now

\* the failure record of id in the map f, Null where it has none
RecordOf(f, id) == IF id \in DOMAIN f THEN f[id] ELSE Null

\* the stored entry of id in the store, Null where it has none
StoredEntryOf(store, id) == IF HasKey(Parse(store), id) THEN Get(Parse(store), id) ELSE Null

\* C28: a recordFailedAttempt call made for one client, promotion included,
\* leaves the failure record (with its count), the stored entry and the
\* answer of isClientBlacklisted of every other client as they were.
C28_ClientIsolation ==
  [][last'.recorded = 1 =>
       \A B \in ClientIds \ {last'.id} :
         /\ RecordOf(failedAttempts', B) = RecordOf(failedAttempts, B)
         /\ StoredEntryOf(blacklistStore', B) = StoredEntryOf(blacklistStore, B)
         /\ isClientBlacklisted(Memory', B, now').ret
              = isClientBlacklisted(Memory, B, now').ret]_vars

\* a call has just promoted one client while another client has a running
\* block in the store
C28_Witness ==
  /\ last.recorded = 1
  /\ HasEntry(last.id) /\ last.id \notin DOMAIN failedAttempts
  /\ \E B \in ClientIds \ {last.id} :
       HasEntry(B) /\ isClientBlacklisted(Memory, B, now).ret

\* C29: repeated derivations of the identifier in an unchanged environment
\* return the same string, and a change of locale, screen geometry, platform
\* or canvas output under the same user agent changes the identifier.
C29_IdentifierOfAllComponents ==
  Answered("getClientIdentifier") =>
    /\ last.ret.first = last.ret.second
    /\ (/\ last.args[2] # "none"
        /\ (last.args[2] = "canvas" => last.args[1].allowCanvas))
         => last.ret.other # last.ret.first

\* the age of the stored token at the clock t, its stamp read as written
StoredTokenFresh(stamp, t) ==
  stamp.present /\ t - DecimalValue(stamp.value) <= tokenValidity

\* C30: redirectToProtectedContent navigates only when validation is skipped
\* or the supplied token equals the stored one and is at most 600 000 ms
\* old; and when the localStorage reads throw, validation is skipped and the
\* redirect happens.
C30_RedirectValidation ==
  Answered("redirectToProtectedContent") =>
    /\ last.ret.navigated =>
         \/ last.ret.skipped
         \/ /\ last.args[2].present /\ last.args[2].value = last.args[1]
            /\ StoredTokenFresh(last.args[3], last.args[4])
    /\ GetItemThrows => (last.ret.skipped /\ last.ret.navigated)

====
